---- MODULE Spec2Model ----
(***************************************************************************)
(* Restaurant Management System (src/main.cpp).                            *)
(*                                                                         *)
(* The program is a single-threaded menu loop (main) over two global maps, *)
(* `tables` and `orders`.  One step of the model is one pass of the loop   *)
(* body: the menu choice and the whole handler it dispatches to.  Every    *)
(* number the handlers read goes through checkNum, which re-prompts until  *)
(* the value is in range; a rejected guest count is modelled as a pass     *)
(* that prints "Invalid input" and changes nothing (at that prompt the     *)
(* handler has not yet written anything, so re-entering the handler and    *)
(* being re-prompted lead to the same states).                             *)
(*                                                                         *)
(* `last` is the transcript of the most recent pass: which handler ran,    *)
(* the table, guest count and item numbers typed in, the message printed   *)
(* and the bill printed (amounts as printed, see Bill).                    *)
(***************************************************************************)
EXTENDS Integers, Sequences, FiniteSets, TLC

\* ---- program constants (main.cpp:36-44) ----
TABLE_QTY == 4
TABLE_CAPACITY == 4
TAX_RATE == 10       \* 0.10, in hundredths
TIP_RATE == 20       \* 0.20, in hundredths
entreePrices == <<35, 45, 38, 38, 38>>
NumEntrees == Len(entreePrices)

\* ---- bounds of the model ----
MaxTable == 2        \* table numbers typed in are 1..MaxTable
MaxItems == 5        \* no order is entered that leaves more than MaxItems items on the books
MaxMenuItems == 2    \* the same limit where two menu items are on offer (SpecMenu)

VARIABLES seatedGuests, orders, receipts, inService, last
vars == <<seatedGuests, orders, receipts, inService, last>>

\* ---- inputs ----
TableInputs == 1..MaxTable
GuestInputs == 0..(TABLE_CAPACITY + 1)
\* Seating and the order lifecycle never read which entree was chosen, so
\* every guest is sampled as ordering menu item 1.
ChoiceInputs == {1}
ItemInputs(n) == [1..n -> ChoiceInputs]
\* The bill and the order of the items do depend on the entrees: SpecMenu
\* offers menu items 1 and 2 (35 and 45) on a shorter order book.
MenuChoiceInputs == {1, 2}
MenuItemInputs(n) == [1..n -> MenuChoiceInputs]
ConfirmInputs == {"y", "Y", "n"}
RandOutputs == {0, 1, 9000}
\* rand() is called only once the payment is confirmed
RandDraws(confirm) == IF confirm \in {"y", "Y"} THEN RandOutputs ELSE {0}

\* struct Table / struct Order
Table == [capacity |-> TABLE_CAPACITY, seatedGuests |-> 0]
Order == [items |-> <<>>, isCompleted |-> FALSE, isPaid |-> FALSE]

\* choices: the item numbers typed in; bill: <<>> or <<the bill printed>>
NoOp == [op |-> "none", tableId |-> 0, guests |-> 0, out |-> "none",
         choices |-> <<>>, bill |-> <<>>]
Said(op, tableId, guests, out) ==
    [op |-> op, tableId |-> tableId, guests |-> guests, out |-> out,
     choices |-> <<>>, bill |-> <<>>]

\* (variant: the upper limit is not enforced)
checkNum_noMax(min, max, val) == val >= min

\* checkNum returns a value only once it lies in [min, max]
checkNum(min, max, val) == val >= min /\ val <= max

\* (variant: the negation of isPaid is dropped)
allOrdersPaidAndComplete_paidPending ==
    \A t \in DOMAIN orders : orders[t].isCompleted /\ ~orders[t].isPaid

allOrdersPaidAndComplete ==
    \A t \in DOMAIN orders : orders[t].isCompleted /\ orders[t].isPaid

\* the status line checkTableStatus prints for a table
checkTableStatus(tableId) ==
    IF tableId \notin DOMAIN orders THEN "no order"
    ELSE IF ~orders[tableId].isCompleted THEN "awaiting completion"
    ELSE IF ~orders[tableId].isPaid THEN "awaiting payment"
    ELSE "all done"

tolower(c) == IF c = "Y" THEN "y" ELSE c

Init ==
    /\ seatedGuests = [i \in 1..TABLE_QTY |-> Table.seatedGuests]
    /\ orders = <<>>
    /\ receipts = {}          \* transaction ids of the receipt files on disk
    /\ inService = TRUE
    /\ last = NoOp

\* orders[tableId] with operator[] semantics: the record is created if absent
OrderAt(tableId) == IF tableId \in DOMAIN orders THEN orders[tableId] ELSE Order

SetOrder(tableId, o) ==
    [t \in DOMAIN orders \cup {tableId} |-> IF t = tableId THEN o ELSE orders[t]]

\* (variant: the item loop stops one guest short)
EntreesOf_oneShort(choices) == [i \in 1..(Len(choices) - 1) |-> choices[i] - 1]

\* (variant: each item is inserted at the front of the batch)
EntreesOf_reversed(choices) ==
    [i \in 1..Len(choices) |-> choices[Len(choices) + 1 - i] - 1]

\* static_cast<Entrees>(choice - 1) for each guest, in guest-entry order
EntreesOf(choices) == [i \in 1..Len(choices) |-> choices[i] - 1]

\* (variant: the seats already taken are not subtracted)
availableSeats_capacity(tableId) == TABLE_CAPACITY

\* int availableSeats = TABLE_CAPACITY - table.seatedGuests
availableSeats(tableId) == TABLE_CAPACITY - seatedGuests[tableId]

placeOrder(tableId, guests, choices) ==
    IF ~checkNum(1, TABLE_QTY, tableId)
    THEN /\ last' = Said("placeOrder", tableId, 0, "Invalid input")
         /\ UNCHANGED <<seatedGuests, orders, receipts, inService>>
    ELSE IF availableSeats(tableId) <= 0
    THEN /\ last' = Said("placeOrder", tableId, 0, "Table is full")
         /\ UNCHANGED <<seatedGuests, orders, receipts, inService>>
    ELSE IF ~checkNum(1, availableSeats(tableId), guests)
    THEN /\ last' = Said("placeOrder", tableId, guests, "Invalid input")
         /\ UNCHANGED <<seatedGuests, orders, receipts, inService>>
    ELSE /\ Len(choices) = guests
         /\ \A i \in 1..guests : checkNum(1, NumEntrees, choices[i])
         /\ seatedGuests' = [seatedGuests EXCEPT ![tableId] = @ + guests]
         /\ orders' = SetOrder(tableId,
                [OrderAt(tableId) EXCEPT !.items = @ \o EntreesOf(choices)])
         /\ last' = [Said("placeOrder", tableId, guests, "Order placed")
                         EXCEPT !.choices = choices]
         /\ UNCHANGED <<receipts, inService>>

\* checkOrderAndTableStatus: the table number typed in, or -1 without a prompt
checkOrderAndTableStatus(tableId) ==
    IF ~allOrdersPaidAndComplete THEN tableId ELSE -1

\* (variant: the order is not looked up before it is marked)
completeOrder_noLookup(tableId) ==
    IF checkOrderAndTableStatus(tableId) = -1
    THEN /\ last' = Said("completeOrder", 0, 0, "No pending orders")
         /\ UNCHANGED <<seatedGuests, orders, receipts, inService>>
    ELSE IF ~checkNum(1, TABLE_QTY, tableId)
    THEN /\ last' = Said("completeOrder", tableId, 0, "Invalid input")
         /\ UNCHANGED <<seatedGuests, orders, receipts, inService>>
    ELSE /\ orders' = SetOrder(tableId, [OrderAt(tableId) EXCEPT !.isCompleted = TRUE])
         /\ last' = Said("completeOrder", tableId, 0, "marked as complete")
         /\ UNCHANGED <<seatedGuests, receipts, inService>>

\* (variant: the flag is flipped instead of set)
completeOrder_toggle(tableId) ==
    IF checkOrderAndTableStatus(tableId) = -1
    THEN /\ last' = Said("completeOrder", 0, 0, "No pending orders")
         /\ UNCHANGED <<seatedGuests, orders, receipts, inService>>
    ELSE IF ~checkNum(1, TABLE_QTY, tableId)
    THEN /\ last' = Said("completeOrder", tableId, 0, "Invalid input")
         /\ UNCHANGED <<seatedGuests, orders, receipts, inService>>
    ELSE IF tableId \notin DOMAIN orders
    THEN /\ last' = Said("completeOrder", tableId, 0, "No order found")
         /\ UNCHANGED <<seatedGuests, orders, receipts, inService>>
    ELSE /\ orders' = [orders EXCEPT ![tableId].isCompleted = ~@]
         /\ last' = Said("completeOrder", tableId, 0, "marked as complete")
         /\ UNCHANGED <<seatedGuests, receipts, inService>>

completeOrder(tableId) ==
    IF checkOrderAndTableStatus(tableId) = -1
    THEN /\ last' = Said("completeOrder", 0, 0, "No pending orders")
         /\ UNCHANGED <<seatedGuests, orders, receipts, inService>>
    ELSE IF ~checkNum(1, TABLE_QTY, tableId)
    THEN /\ last' = Said("completeOrder", tableId, 0, "Invalid input")
         /\ UNCHANGED <<seatedGuests, orders, receipts, inService>>
    ELSE IF tableId \notin DOMAIN orders
    THEN /\ last' = Said("completeOrder", tableId, 0, "No order found")
         /\ UNCHANGED <<seatedGuests, orders, receipts, inService>>
    ELSE /\ orders' = [orders EXCEPT ![tableId].isCompleted = TRUE]
         /\ last' = Said("completeOrder", tableId, 0, "marked as complete")
         /\ UNCHANGED <<seatedGuests, receipts, inService>>

\* rand() % 9000 + 1000
TransId(r) == (r % 9000) + 1000

\* (variant: the completion check is missing)
notCompleted_unchecked(order) == FALSE

\* (variant: the completion check is inverted)
notCompleted_inverted(order) == order.isCompleted

\* if (!order.isCompleted): payment is refused
notCompleted(order) == ~order.isCompleted

\* (variant: the table is not cleared)
confirmPayment_keepSeats(tableId, r) ==
    /\ orders' = [orders EXCEPT ![tableId].isPaid = TRUE]
    /\ receipts' = receipts \cup {TransId(r)}
    /\ UNCHANGED seatedGuests

\* (variant: every table is cleared)
confirmPayment_clearsAll(tableId, r) ==
    /\ orders' = [orders EXCEPT ![tableId].isPaid = TRUE]
    /\ seatedGuests' = [t \in DOMAIN seatedGuests |-> 0]
    /\ receipts' = receipts \cup {TransId(r)}

\* (variant: the order is never marked paid)
confirmPayment_notMarked(tableId, r) ==
    /\ seatedGuests' = [seatedGuests EXCEPT ![tableId] = 0]
    /\ receipts' = receipts \cup {TransId(r)}
    /\ UNCHANGED orders

\* the confirmed branch: mark paid, clear the table, write Transaction#<id>.txt
confirmPayment(tableId, r) ==
    /\ orders' = [orders EXCEPT ![tableId].isPaid = TRUE]
    /\ seatedGuests' = [seatedGuests EXCEPT ![tableId] = 0]
    /\ receipts' = receipts \cup {TransId(r)}

\* (variant: the table is cleared before the answer is read)
declinePayment_clearsTable(tableId) ==
    /\ seatedGuests' = [seatedGuests EXCEPT ![tableId] = 0]
    /\ UNCHANGED <<orders, receipts>>

\* the declined branch only prints "Payment cancelled."
declinePayment(tableId) == UNCHANGED <<seatedGuests, orders, receipts>>

\* (variant: the loop starts at the second item)
RECURSIVE Subtotal_skipFirst(_)
Subtotal_skipFirst(items) ==
    IF Len(items) <= 1 THEN 0
    ELSE entreePrices[items[Len(items)] + 1]
         + Subtotal_skipFirst(SubSeq(items, 1, Len(items) - 1))

\* for (Entrees item : order.items) subtotal += entreePrices[item]
RECURSIVE Subtotal(_)
Subtotal(items) ==
    IF items = <<>> THEN 0
    ELSE entreePrices[Head(items) + 1] + Subtotal(Tail(items))

\* The bill as printed.  subtotal is an int and prints in whole currency
\* units.  tax, tip and total are doubles printed with fixed << setprecision(2):
\* subtotal * 0.10, subtotal * 0.20 and their sum with subtotal are whole
\* tenths up to a rounding error far below half a hundredth, so the printed
\* amounts are exactly these numbers of hundredths.
Bill(items) ==
    LET subtotal == Subtotal(items)
        tax == subtotal * TAX_RATE
        tip == subtotal * TIP_RATE
    IN [subtotal |-> subtotal, tax |-> tax, tip |-> tip,
        total |-> subtotal * 100 + tax + tip]

payForOrder(tableId, confirm, r) ==
    IF checkOrderAndTableStatus(tableId) = -1
    THEN /\ last' = Said("payForOrder", 0, 0, "No pending orders")
         /\ UNCHANGED <<seatedGuests, orders, receipts, inService>>
    ELSE IF ~checkNum(1, TABLE_QTY, tableId)
    THEN /\ last' = Said("payForOrder", tableId, 0, "Invalid input")
         /\ UNCHANGED <<seatedGuests, orders, receipts, inService>>
    ELSE IF tableId \notin DOMAIN orders
    THEN /\ last' = Said("payForOrder", tableId, 0, "No order found")
         /\ UNCHANGED <<seatedGuests, orders, receipts, inService>>
    ELSE IF notCompleted(orders[tableId])
    THEN /\ last' = Said("payForOrder", tableId, 0, "not completed yet")
         /\ UNCHANGED <<seatedGuests, orders, receipts, inService>>
    ELSE IF tolower(confirm) = "y"
    THEN /\ confirmPayment(tableId, r)
         /\ last' = [Said("payForOrder", tableId, 0, "Payment successful")
                         EXCEPT !.bill = <<Bill(orders[tableId].items)>>]
         /\ UNCHANGED inService
    ELSE /\ declinePayment(tableId)
         /\ last' = [Said("payForOrder", tableId, 0, "Payment cancelled")
                         EXCEPT !.bill = <<Bill(orders[tableId].items)>>]
         /\ UNCHANGED inService

RECURSIVE ItemsOnBooks(_, _)
ItemsOnBooks(book, n) ==
    IF n = 0 THEN 0
    ELSE ItemsOnBooks(book, n - 1) + (IF n \in DOMAIN book THEN Len(book[n].items) ELSE 0)

\* ---- main: one pass of the service loop per menu choice ----
\* case 1
EnterOrder ==
    /\ inService
    /\ \E tableId \in TableInputs, guests \in GuestInputs :
       \E choices \in ItemInputs(IF guests <= TABLE_CAPACITY THEN guests ELSE 0) :
         /\ placeOrder(tableId, guests, choices)
         /\ ItemsOnBooks(orders', TABLE_QTY) <= MaxItems

\* case 1, with two menu items on offer
EnterMenuOrder ==
    /\ inService
    /\ \E tableId \in TableInputs, guests \in GuestInputs :
       \E choices \in MenuItemInputs(IF guests <= MaxMenuItems THEN guests ELSE 0) :
         /\ placeOrder(tableId, guests, choices)
         /\ ItemsOnBooks(orders', TABLE_QTY) <= MaxMenuItems

\* case 2
CompleteOrder ==
    /\ inService
    /\ orders # <<>> /\ ~allOrdersPaidAndComplete
    /\ \E tableId \in TableInputs : completeOrder(tableId)

CompleteRefused ==
    /\ inService
    /\ ~(orders # <<>> /\ ~allOrdersPaidAndComplete)
    /\ last' = Said("completeOrder", 0, 0, "No orders available to complete")
    /\ UNCHANGED <<seatedGuests, orders, receipts, inService>>

\* case 3
PayBill ==
    /\ inService
    /\ orders # <<>> /\ ~allOrdersPaidAndComplete
    /\ \E tableId \in TableInputs, confirm \in ConfirmInputs :
       \E r \in RandDraws(confirm) :
         payForOrder(tableId, confirm, r)

PayRefused ==
    /\ inService
    /\ ~(orders # <<>> /\ ~allOrdersPaidAndComplete)
    /\ last' = Said("payForOrder", 0, 0, "No unpaid orders available")
    /\ UNCHANGED <<seatedGuests, orders, receipts, inService>>

\* (variant: an empty order book may close)
Close_emptyBook ==
    /\ inService
    /\ allOrdersPaidAndComplete
    /\ inService' = FALSE
    /\ last' = Said("close", 0, 0, "Goodbye")
    /\ UNCHANGED <<seatedGuests, orders, receipts>>

\* case 4
Close ==
    /\ inService
    /\ orders # <<>> /\ allOrdersPaidAndComplete
    /\ inService' = FALSE
    /\ last' = Said("close", 0, 0, "Goodbye")
    /\ UNCHANGED <<seatedGuests, orders, receipts>>

CloseRefused ==
    /\ inService
    /\ ~(orders # <<>> /\ allOrdersPaidAndComplete)
    /\ last' = Said("close", 0, 0, "Cannot close")
    /\ UNCHANGED <<seatedGuests, orders, receipts, inService>>

Next ==
    \/ EnterOrder
    \/ CompleteOrder
    \/ CompleteRefused
    \/ PayBill
    \/ PayRefused
    \/ Close
    \/ CloseRefused

Spec == Init /\ [][Next]_vars

NextMenu ==
    \/ EnterMenuOrder
    \/ CompleteOrder
    \/ CompleteRefused
    \/ PayBill
    \/ PayRefused
    \/ Close
    \/ CloseRefused

SpecMenu == Init /\ [][NextMenu]_vars

\* The passes a waiter owes a table: complete its open order, and take the
\* confirmed payment of its completed order.
CompleteStep(t) ==
    /\ inService
    /\ orders # <<>> /\ ~allOrdersPaidAndComplete
    /\ t \in DOMAIN orders /\ ~orders[t].isCompleted
    /\ completeOrder(t)

PayStep(t) ==
    /\ inService
    /\ orders # <<>> /\ ~allOrdersPaidAndComplete
    /\ t \in DOMAIN orders /\ orders[t].isCompleted /\ ~orders[t].isPaid
    /\ \E r \in RandOutputs : payForOrder(t, "y", r)

\* Spec, with those passes taken fairly for every table
SpecFair ==
    /\ Init /\ [][Next]_vars
    /\ \A t \in TableInputs : WF_vars(CompleteStep(t)) /\ WF_vars(PayStep(t))

TypeOK ==
    /\ DOMAIN seatedGuests = 1..TABLE_QTY
    /\ DOMAIN orders \subseteq 1..TABLE_QTY
    /\ receipts \subseteq 1000..9999
    /\ inService \in BOOLEAN

\* ---- vocabulary of the properties ----
Tables == 1..TABLE_QTY
Settled(book, t) == t \in DOMAIN book /\ book[t].isCompleted /\ book[t].isPaid
Ran_on(op, t) == last'.op = op /\ last'.tableId = t

\* NoOrder = 0, AwaitingCompletion = 1, AwaitingPayment = 2, Settled = 3
StatusRank(book, t) ==
    IF t \notin DOMAIN book THEN 0
    ELSE IF ~book[t].isCompleted THEN 1
    ELSE IF ~book[t].isPaid THEN 2
    ELSE 3

\* C1: in every reachable state every paid order is also completed.
C1_PaidImpliesCompleted ==
    \A t \in DOMAIN orders : orders[t].isPaid => orders[t].isCompleted

C1_Witness ==
    /\ last.op = "payForOrder" /\ last.out = "Payment successful"
    /\ orders[last.tableId].isPaid /\ orders[last.tableId].isCompleted

\* C2: in every reachable state every table holds between 0 and
\* TABLE_CAPACITY seated guests.
C2_SeatsWithinCapacity ==
    \A t \in Tables : seatedGuests[t] >= 0 /\ seatedGuests[t] <= TABLE_CAPACITY

C2_Witness ==
    /\ last.op = "placeOrder" /\ last.out = "Table is full"
    /\ seatedGuests[last.tableId] = TABLE_CAPACITY

\* C3: a payment attempt on an order that is already paid does not succeed:
\* no receipt is written and neither the order nor the seating changes.
C3_AlreadyPaidRefused ==
    [][\A t \in DOMAIN orders :
          (orders[t].isPaid /\ Ran_on("payForOrder", t))
              => /\ last'.out # "Payment successful"
                 /\ UNCHANGED <<seatedGuests, orders, receipts>>]_vars

\* C4: placeOrder on a table whose order is settled seats nobody and appends
\* nothing, so a settled order and its table never change again.
C4_SettledNeverChanges ==
    [][\A t \in Tables :
          Settled(orders, t)
              => /\ orders'[t] = orders[t]
                 /\ seatedGuests'[t] = seatedGuests[t]
                 /\ ~(Ran_on("placeOrder", t) /\ last'.out = "Order placed")]_vars

\* C5: a payment attempt on an order that is not completed is refused and
\* changes nothing: not the order, not the seating, not the receipts.
C5_PayBeforeCompleteRefused ==
    [][\A t \in DOMAIN orders :
          (~orders[t].isCompleted /\ Ran_on("payForOrder", t))
              => /\ last'.out = "not completed yet"
                 /\ UNCHANGED <<seatedGuests, orders, receipts, inService>>]_vars

C5_Witness ==
    /\ last.op = "payForOrder" /\ last.out = "not completed yet"
    /\ last.tableId \in DOMAIN orders
    /\ ~orders[last.tableId].isCompleted /\ ~orders[last.tableId].isPaid
    /\ seatedGuests[last.tableId] = Len(orders[last.tableId].items)

\* C6: the close operation ends service exactly when at least one order exists
\* and every order is completed and paid; otherwise it is refused, service
\* continues and nothing changes.
C6_CloseIffAllSettled ==
    [][last'.op = "close"
          => /\ inService
             /\ UNCHANGED <<seatedGuests, orders, receipts>>
             /\ ~inService' <=> (orders # <<>> /\ \A t \in DOMAIN orders : Settled(orders, t))]_vars

C6_Witness ==
    /\ ~inService /\ last.op = "close"
    /\ orders # <<>> /\ \A t \in DOMAIN orders : Settled(orders, t)

\* C7: right after a successful payment the table is empty and its order is
\* reported as settled.
C7_PaidTableEmptyAndSettled ==
    (last.op = "payForOrder" /\ last.out = "Payment successful")
        => /\ seatedGuests[last.tableId] = 0
           /\ Settled(orders, last.tableId)
           /\ checkTableStatus(last.tableId) = "all done"

C7_Witness ==
    /\ last.op = "payForOrder" /\ last.out = "Payment successful"
    /\ Len(orders[last.tableId].items) >= 2
    /\ seatedGuests[last.tableId] = 0

\* C8: the lifecycle is forward-only: an order record is never removed, its
\* flags never fall back to false, and a table's status moves only one step
\* at a time along NoOrder, AwaitingCompletion, AwaitingPayment, Settled.
C8_ForwardOnly ==
    [][\A t \in Tables :
          /\ t \in DOMAIN orders => /\ t \in DOMAIN orders'
                                    /\ orders[t].isCompleted => orders'[t].isCompleted
                                    /\ orders[t].isPaid => orders'[t].isPaid
          /\ \/ StatusRank(orders', t) = StatusRank(orders, t)
             \/ StatusRank(orders', t) = StatusRank(orders, t) + 1]_vars

C8_Witness ==
    /\ \E t \in Tables : StatusRank(orders, t) = 3
    /\ \E t \in Tables : StatusRank(orders, t) = 1

\* C9: placeOrder succeeds only with a guest count between 1 and the seats
\* still available; a refused placeOrder leaves seating and orders unchanged.
C9_PlaceWithinAvailable ==
    [][last'.op = "placeOrder"
          => IF last'.out = "Order placed"
             THEN /\ last'.guests >= 1
                  /\ last'.guests <= TABLE_CAPACITY - seatedGuests[last'.tableId]
             ELSE UNCHANGED <<seatedGuests, orders>>]_vars

C9_Witness ==
    /\ last.op = "placeOrder" /\ last.out = "Invalid input"
    /\ last.guests = TABLE_CAPACITY + 1
    /\ seatedGuests[last.tableId] = 0

\* C10: a successful placeOrder adds its guest count both to the seating and
\* to the order's items, so between operations an unpaid order has as many
\* items as its table has guests, and a table without an order has none.
C10_SeatingMatchesItems ==
    /\ [](\A t \in Tables :
            /\ (t \in DOMAIN orders /\ ~orders[t].isPaid)
                   => Len(orders[t].items) = seatedGuests[t]
            /\ t \notin DOMAIN orders => seatedGuests[t] = 0)
    /\ [][(last'.op = "placeOrder" /\ last'.out = "Order placed")
             => LET t == last'.tableId IN
                /\ seatedGuests'[t] = seatedGuests[t] + last'.guests
                /\ Len(orders'[t].items) = Len(OrderAt(t).items) + last'.guests]_vars

C10_Witness ==
    /\ last.op = "placeOrder" /\ last.out = "Order placed" /\ last.guests >= 2
    /\ ~orders[last.tableId].isPaid
    /\ Len(orders[last.tableId].items) > last.guests
\* amounts of a bill, recomputed item by item from the price list
RECURSIVE PriceSum(_, _)
PriceSum(items, n) ==
    IF n = 0 THEN 0 ELSE PriceSum(items, n - 1) + entreePrices[items[n] + 1]

IsPrefix(a, b) == Len(a) <= Len(b) /\ SubSeq(b, 1, Len(a)) = a

Untouched == UNCHANGED <<seatedGuests, orders, receipts, inService>>

\* C11: the bill printed for a completed order has subtotal = the sum of the
\* prices of all its items, tax = 10% and tip = 20% of the subtotal and
\* total = subtotal + tax + tip (amounts in hundredths); items priced 35 and
\* 45 give 80, 8.00, 16.00 and 104.00.
C11_BillAmounts ==
    last.bill # <<>>
        => LET b == last.bill[1]
               o == orders[last.tableId]
           IN /\ o.isCompleted
              /\ b.subtotal = PriceSum(o.items, Len(o.items))
              /\ 10 * b.tax = 100 * b.subtotal
              /\ 10 * b.tip = 2 * 100 * b.subtotal
              /\ 10 * b.total = 13 * 100 * b.subtotal
              /\ b.total = 100 * b.subtotal + b.tax + b.tip
              /\ o.items = <<0, 1>>
                    => b = [subtotal |-> 80, tax |-> 800, tip |-> 1600, total |-> 10400]

C11_Witness ==
    /\ last.op = "payForOrder" /\ last.bill # <<>>
    /\ orders[last.tableId].items = <<0, 1>>
    /\ last.bill = <<[subtotal |-> 80, tax |-> 800, tip |-> 1600, total |-> 10400]>>

\* C12: showing the bill changes nothing: a declined payment leaves seating,
\* orders and receipts as they were, and two bills shown for the same table
\* in consecutive passes are identical.
C12_BillReadOnly ==
    [][/\ (last'.op = "payForOrder" /\ last'.out = "Payment cancelled") => Untouched
       /\ (last.bill # <<>> /\ last'.bill # <<>> /\ last'.tableId = last.tableId)
              => last'.bill = last.bill]_vars

C12_Witness ==
    /\ last.op = "payForOrder" /\ last.out = "Payment cancelled"
    /\ last.bill # <<>> /\ last.bill[1].subtotal > 0
    /\ ~orders[last.tableId].isPaid
    /\ seatedGuests[last.tableId] > 0
    /\ receipts = {}

\* C13: every successful payment is assigned a transaction id that no
\* earlier payment of the run was assigned, so no receipt file is overwritten.
C13_UniqueTransactionIds ==
    [][last'.out = "Payment successful" => receipts' # receipts]_vars

\* C14: completeOrder or pay on a table that has no order is refused with
\* "No order found" and changes nothing; no order record is created.
C14_NoOrderRefused ==
    [][\A t \in Tables :
          (t \notin DOMAIN orders /\ last'.op \in {"completeOrder", "payForOrder"}
              /\ last'.tableId = t)
              => /\ last'.out = "No order found"
                 /\ t \notin DOMAIN orders'
                 /\ Untouched]_vars

C14_Witness ==
    /\ last.op = "payForOrder" /\ last.out = "No order found"
    /\ last.tableId \notin DOMAIN orders
    /\ orders # <<>>

\* C15: an order's items are append-only: every pass leaves the old items as
\* a prefix of the new ones, only a successful placeOrder on that table
\* changes them, and it appends the items typed in, in guest-entry order.
C15_ItemsAppendOnly ==
    [][/\ \A t \in DOMAIN orders :
            /\ IsPrefix(orders[t].items, orders'[t].items)
            /\ orders'[t].items # orders[t].items
                  => /\ last'.op = "placeOrder" /\ last'.out = "Order placed"
                     /\ last'.tableId = t
       /\ (last'.op = "placeOrder" /\ last'.out = "Order placed")
              => orders'[last'.tableId].items
                    = OrderAt(last'.tableId).items
                        \o [i \in 1..last'.guests |-> last'.choices[i] - 1]]_vars

C15_Witness ==
    /\ last.op = "placeOrder" /\ last.out = "Order placed"
    /\ last.choices = <<2>>
    /\ orders[last.tableId].items = <<0, 1>>

\* C16: completeOrder on an order that is already completed changes nothing:
\* completed stays true and paid, items and seating are as before, also when
\* the order is already paid.
C16_RecompleteNoOp ==
    [][\A t \in DOMAIN orders :
          (orders[t].isCompleted /\ last'.op = "completeOrder" /\ last'.tableId = t)
              => /\ orders'[t].isCompleted
                 /\ Untouched]_vars

C16_Witness ==
    /\ last.op = "completeOrder" /\ last.out = "marked as complete"
    /\ orders[last.tableId].isCompleted /\ orders[last.tableId].isPaid

\* C17: a pass that targets table t leaves the seating and the order
\* (existence, items, flags) of every other table unchanged.
C17_OtherTablesUntouched ==
    [][\A u \in Tables :
          u # last'.tableId
              => /\ seatedGuests'[u] = seatedGuests[u]
                 /\ u \in DOMAIN orders' <=> u \in DOMAIN orders
                 /\ u \in DOMAIN orders => orders'[u] = orders[u]]_vars

C17_Witness ==
    /\ last.op = "payForOrder" /\ last.out = "Payment successful"
    /\ \E u \in DOMAIN orders : u # last.tableId /\ seatedGuests[u] > 0

\* C18: while no order exists or every order is settled, complete and pay
\* are refused before any table is asked for and change nothing.
C18_NothingPendingRefused ==
    [][((\A t \in DOMAIN orders : Settled(orders, t))
            /\ last'.op \in {"completeOrder", "payForOrder"})
          => /\ last'.tableId = 0
             /\ last'.out \in {"No orders available to complete",
                               "No unpaid orders available", "No pending orders"}
             /\ Untouched]_vars

C18_Witness ==
    /\ last.op = "payForOrder" /\ last.out = "No unpaid orders available"
    /\ orders # <<>> /\ \A t \in DOMAIN orders : Settled(orders, t)

\* C19: with completion and confirmed payment taken fairly for every table,
\* whenever an order exists, eventually every order is settled and the
\* restaurant may close.
C19_EventuallySettled ==
    (orders # <<>>) ~> (orders # <<>> /\ \A t \in DOMAIN orders : Settled(orders, t))

C19_Witness ==
    /\ last.op = "payForOrder" /\ last.out = "Payment successful"
    /\ Cardinality(DOMAIN orders) >= 2
    /\ \A t \in DOMAIN orders : Settled(orders, t)
====
